---------------------------- MODULE Spec2Model ----------------------------
(***************************************************************************)
(* Model of magma::service303::MetricsRegistry<T, MetricFamilyFactory>     *)
(* (common/service303/MetricsRegistry.h): the get-or-create dictionary of  *)
(* prometheus metric families and labeled metric instances.                *)
(*                                                                         *)
(* A std::string is a sequence of byte values.  A std::map<string,string>  *)
(* is the sequence of its (key, value) pairs in key order, which is the    *)
(* order its iterators visit.  A Family<T>* is the position of the family  *)
(* in the backend registry; a T* is the pair (family, position of the      *)
(* metric in that family).                                                 *)
(***************************************************************************)
EXTENDS Integers, Sequences, FiniteSets, TLC

VARIABLES
    families_,   \* std::unordered_map<size_t, Family<T>*>
    metrics_,    \* std::unordered_map<size_t, T*>
    registry_,   \* the prometheus::Registry: the families registered, each
                 \* with the metrics added to it
    last,        \* the latest Get call: its arguments and its outcome
    requested,   \* for each (name, labels as inserted) for which Get has
                 \* returned: the instances returned and the construction
                 \* arguments of the first call
    ncalls,      \* the number of Get calls made
    failed,      \* whether the backend has thrown in some call
    thread,      \* for each thread that calls Get without synchronization:
                 \* where it stands in Get, and Get's locals
    corrupted,   \* whether a data race on families_ or metrics_ has left
                 \* the registry in an undefined state
    aligned_malloc  \* a call of lfds611_liblfds_aligned_malloc: where it
                    \* stands, its arguments and its locals

vars == <<families_, metrics_, registry_, last, requested, ncalls, failed,
          thread, corrupted, aligned_malloc>>

---------------------------------------------------------------------------
(* Strings                                                                 *)

Str_empty == <<>>
Str_a     == <<97>>
Str_b     == <<98>>
Str_ab    == <<97, 98>>
Str_1     == <<49>>
Str_2     == <<50>>

\* The longest run of Get calls explored.
MaxCalls == 3

\* The metric names, label names and label values the callers use.
Names       == {Str_a, Str_1, Str_ab}
LabelNames  == {Str_2, Str_b}
LabelValues == {Str_empty, Str_b}

\* The construction arguments forwarded to Family::Add (Args&&... args): the
\* empty pack of a counter or a gauge, the bucket boundaries of a histogram.
NoArgs        == << >>
HistogramArgs == { << "buckets1" >>, << "buckets2" >> }

\* Where the backend throws during a Get, if anywhere.
Faults == {"none", "register", "add"}

---------------------------------------------------------------------------
(* Library functions                                                       *)

\* std::hash<std::string>: a deterministic function of the bytes that the
\* library chooses, here a polynomial hash kept to HashBits bits.  It maps
\* the strings of this model to different values, as a 64-bit hash does for
\* strings this short: two keys are equal here only when the hashed strings
\* are equal.
HashBits == 24
HashBase == 31

RECURSIVE HashFrom(_, _)
HashFrom(h, s) ==
    IF s = <<>> THEN h
    ELSE HashFrom((h * HashBase + Head(s)) % (2 ^ HashBits), Tail(s))

StdHash(s) == HashFrom(7, s)

\* std::string operator< : lexicographic order on the bytes.
RECURSIVE StrLess(_, _)
StrLess(s, t) ==
    IF t = <<>> THEN FALSE
    ELSE IF s = <<>> THEN TRUE
    ELSE IF Head(s) # Head(t) THEN Head(s) < Head(t)
    ELSE StrLess(Tail(s), Tail(t))

\* std::map::insert({k, v}): no effect when the key is present, otherwise
\* the pair is placed at its position in key order.
RECURSIVE MapInsert(_, _, _)
MapInsert(m, k, v) ==
    IF m = <<>> THEN << <<k, v>> >>
    ELSE IF Head(m)[1] = k THEN m
    ELSE IF StrLess(k, Head(m)[1]) THEN << <<k, v>> >> \o m
    ELSE << Head(m) >> \o MapInsert(Tail(m), k, v)

\* The std::map a caller builds by inserting the pairs of ins one by one.
RECURSIVE MapOf(_)
MapOf(ins) ==
    IF ins = <<>> THEN <<>>
    ELSE LET k == ins[Len(ins)][1]
             v == ins[Len(ins)][2]
         IN MapInsert(MapOf(SubSeq(ins, 1, Len(ins) - 1)), k, v)

\* std::to_string(int)
Digit(d) == 48 + d

RECURSIVE to_string(_)
to_string(n) ==
    IF n < 10 THEN << Digit(n) >>
    ELSE Append(to_string(n \div 10), Digit(n % 10))

---------------------------------------------------------------------------
(* The enum resolvers of protos/metricsd.pb.h                              *)

\* The names of enum MetricName and of enum MetricLabelName, each with its
\* number.
MetricNameEnum      == (Str_a :> 1)
MetricLabelNameEnum == (Str_b :> 2)

MetricName_Parse(name)      == name \in DOMAIN MetricNameEnum
MetricLabelName_Parse(name) == name \in DOMAIN MetricLabelNameEnum

---------------------------------------------------------------------------
(* MetricsRegistry                                                         *)

\* A Get that registers the raw name whether or not it is an enum name.
ProtoNameRaw(name) == name

\* name_value / proto_name of Get
ProtoName(name) ==
    IF MetricName_Parse(name) THEN to_string(MetricNameEnum[name]) ELSE name

\* label_name of parse_labels
ProtoLabelName(label) ==
    IF MetricLabelName_Parse(label) THEN to_string(MetricLabelNameEnum[label])
    ELSE label

\* std::accumulate(labels.begin(), labels.end(), std::string{name}, ...)
RECURSIVE Accumulate(_, _)
Accumulate(acc, labels) ==
    IF labels = <<>> THEN acc
    ELSE Accumulate(acc \o Head(labels)[1] \o Head(labels)[2], Tail(labels))

hash_name_and_labels(name, labels) == StdHash(Accumulate(name, labels))

RECURSIVE ParseInto(_, _)
ParseInto(parsed_labels, labels) ==
    IF labels = <<>> THEN parsed_labels
    ELSE ParseInto(MapInsert(parsed_labels, ProtoLabelName(Head(labels)[1]),
                             Head(labels)[2]),
                   Tail(labels))

parse_labels(labels) == ParseInto(<<>>, labels)

SizeFamilies == Cardinality(DOMAIN families_)
SizeMetrics  == Cardinality(DOMAIN metrics_)

\* A Get that keys the family cache on the normalized name.
NameHashNormalized(name) == StdHash(ProtoName(name))

\* size_t name_hash = std::hash<std::string>{}(name)
NameHash(name) == StdHash(name)

\* A Get that never finds the family in the cache.
FamilyCachedNever(name) == FALSE

\* families_.find(name_hash) != families_.end()
FamilyCached(name) == NameHash(name) \in DOMAIN families_

\* A Get that never finds the metric in the cache.
MetricCachedNever(name, labels) == FALSE

\* metrics_.find(metric_hash) != metrics_.end()
MetricCached(name, labels) ==
    hash_name_and_labels(name, labels) \in DOMAIN metrics_

\* factory_().Name(proto_name).Register(*registry_)
Register(reg, proto_name) ==
    Append(reg, [name |-> proto_name, metrics |-> <<>>])

\* A Get that enters the key in families_, with a null Family<T>*, before it
\* calls Register.
FamiliesAfterThrowKeyInserted(families, name_hash) ==
    families @@ (name_hash :> 0)

\* What an exception leaving Register leaves of families_, and one leaving
\* Add of metrics_: Get inserts only after the call has returned.
FamiliesAfterThrow(families, name_hash) == families

\* A Get that empties metrics_ when Add throws.
MetricsAfterThrowCleared(metrics, metric_hash) == << >>

MetricsAfterThrow(metrics, metric_hash) == metrics

\* family->Add(converted_labels, args...)
Add(reg, family, converted_labels, args) ==
    [reg EXCEPT ![family].metrics =
        Append(@, [labels |-> converted_labels, args |-> args])]

\* The set of (label name, label value) pairs of an insertion sequence or of
\* a map.
PairsOf(s) == { s[i] : i \in 1..Len(s) }

NoCall == [op |-> "none"]

\* The threads that share one registry.
Threads == {1, 2}

\* The value of a T* local of Get before its assignment, which Get never
\* reads.
NoMetric == [family |-> 0, index |-> 0]

\* A thread that has not called Get.
Idle ==
    [pc |-> "idle", name |-> <<>>, labels |-> <<>>, family |-> 0,
     metric |-> NoMetric, family_hit |-> FALSE, metric_hit |-> FALSE,
     warm |-> FALSE, result |-> NoMetric, calls |-> 0]

\* lfds611_liblfds_aligned_malloc before it is called.
NotCalled ==
    [pc |-> "idle", size |-> 0, align_in_bytes |-> 0, length |-> 0,
     original_memory |-> 0, memory |-> 0, offset |-> 0, slot |-> 0,
     slot_value |-> 0]

Init ==
    /\ families_ = << >>
    /\ metrics_ = << >>
    /\ registry_ = << >>
    /\ last = NoCall
    /\ requested = << >>
    /\ ncalls = 0
    /\ failed = FALSE
    /\ thread = [t \in Threads |-> Idle]
    /\ corrupted = FALSE
    /\ aligned_malloc = NotCalled

\* The record of one Get call: what the caller passed (the label map was
\* built by inserting ins), what the call did and how it ended; retry_of
\* tells where the call before it threw when that call had the same
\* arguments.
Call(name, ins, args, family_hit, metric_hit, thrown, result) ==
    [op |-> "Get", name |-> name, ins |-> ins, labels |-> MapOf(ins),
     args |-> args, family_hit |-> family_hit, metric_hit |-> metric_hit,
     thrown |-> thrown, result |-> result,
     retry_of |-> IF last.op = "Get" /\ last.name = name /\ last.ins = ins
                  THEN last.thrown ELSE "none"]

\* requested after one more Get(name, ins, args), which returned metric.
Requested(req, name, ins, args, metric) ==
    LET key == <<name, ins>>
        new == IF key \in DOMAIN req
               THEN [req[key] EXCEPT !.instances = @ \cup {metric}]
               ELSE [instances |-> {metric}, first_args |-> args]
    IN  [k \in DOMAIN req \cup {key} |-> IF k = key THEN new ELSE req[k]]

\* T& Get(name, labels, args...), called with the map built from ins.  The
\* backend throws in the call of Register or of Add that fault names, which
\* it can only do when Get makes that call.
Get(name, ins, args, fault) ==
    LET labels      == MapOf(ins)
        name_hash   == NameHash(name)
        family_hit  == FamilyCached(name)
        family      == IF family_hit THEN families_[name_hash]
                       ELSE Len(registry_) + 1
        registry1   == IF family_hit THEN registry_
                       ELSE Register(registry_, ProtoName(name))
        families1   == IF family_hit THEN families_
                       ELSE families_ @@ (name_hash :> family)
        metric_hash == hash_name_and_labels(name, labels)
        metric_hit  == MetricCached(name, labels)
        metric      == IF metric_hit THEN metrics_[metric_hash]
                       ELSE [family |-> family,
                             index  |-> Len(registry1[family].metrics) + 1]
    IN  /\ fault = "register" => ~family_hit
        /\ fault = "add" => ~metric_hit
        /\ ncalls' = ncalls + 1
        /\ IF fault = "register"
           THEN /\ families_' = FamiliesAfterThrow(families_, name_hash)
                /\ last' = Call(name, ins, args, FALSE, FALSE, "register",
                                "none")
                /\ failed' = TRUE
                /\ UNCHANGED <<metrics_, registry_, requested>>
           ELSE IF metric_hit
           THEN /\ families_' = families1
                /\ registry_' = registry1
                /\ last' = Call(name, ins, args, family_hit, TRUE, "none",
                                metric)
                /\ requested' = Requested(requested, name, ins, args,
                                          metric)
                /\ UNCHANGED <<metrics_, failed>>
           ELSE IF fault = "add"
           THEN /\ families_' = families1
                /\ registry_' = registry1
                /\ metrics_' = MetricsAfterThrow(metrics_, metric_hash)
                /\ last' = Call(name, ins, args, family_hit, FALSE, "add",
                                "none")
                /\ failed' = TRUE
                /\ UNCHANGED requested
           ELSE /\ families_' = families1
                /\ registry_' = Add(registry1, family, parse_labels(labels),
                                    args)
                /\ metrics_' = metrics_ @@ (metric_hash :> metric)
                /\ last' = Call(name, ins, args, family_hit, FALSE, "none",
                                metric)
                /\ requested' = Requested(requested, name, ins, args,
                                          metric)
                /\ UNCHANGED failed

\* The insertion sequences a caller may use: label names are unique.
RECURSIVE SeqsOver(_, _)
SeqsOver(keys, n) ==
    IF n = 0 THEN { <<>> }
    ELSE LET shorter == SeqsOver(keys, n - 1)
         IN shorter \cup
            { Append(s, <<k, v>>) :
                s \in { t \in shorter : Len(t) = n - 1 },
                k \in keys, v \in LabelValues }

LabelInputs ==
    { s \in SeqsOver(LabelNames, Cardinality(LabelNames)) :
        \A i, j \in 1..Len(s) : i # j => s[i][1] # s[j][1] }

\* The same label sets, each inserted in key order.
LabelMaps == { MapOf(s) : s \in LabelInputs }

\* A registry of counters or gauges (no construction arguments), whose
\* backend may throw.
Next ==
    /\ ncalls < MaxCalls
    /\ \E name \in Names, ins \in LabelInputs, fault \in Faults :
            Get(name, ins, NoArgs, fault)
    /\ UNCHANGED <<thread, corrupted, aligned_malloc>>

Spec == Init /\ [][Next]_vars

\* A registry of histograms, whose Get forwards the bucket boundaries; the
\* backend does not throw.
NextHistogram ==
    /\ ncalls < MaxCalls
    /\ \E name \in Names, ins \in LabelMaps, args \in HistogramArgs :
            Get(name, ins, args, "none")
    /\ UNCHANGED <<thread, corrupted, aligned_malloc>>

SpecHistogram == Init /\ [][NextHistogram]_vars

---------------------------------------------------------------------------
(* Get called from several threads without synchronization                 *)

\* The most Get calls the threads make together.
MaxThreadCalls == 3

\* The label maps the threads pass.
ThreadLabels == { <<>>, << <<Str_b, Str_empty>> >> }

\* The number of Get calls the threads ts have made.
RECURSIVE CallsOf(_)
CallsOf(ts) ==
    IF ts = {} THEN 0
    ELSE LET t == CHOOSE u \in ts : TRUE
         IN thread[t].calls + CallsOf(ts \ {t})

\* A thread is inside Get.
InFlight(t) == thread[t].pc \notin {"idle", "done"}

\* A Get that returns what metrics_ holds for the key after the insert.
ReturnedFromCache(metrics, metric_hash, metric) == metrics[metric_hash]

\* return *metric: the local, whatever metrics_ holds for the key.
Returned(metrics, metric_hash, metric) == metric

\* std::unordered_map::insert({key, value}): no effect when the key is
\* present.
CacheInsert(cache, key, value) == cache @@ (key :> value)

\* A step of a thread in Get: it touches nothing but the registry and the
\* thread's locals; after a data race with undefined behaviour nothing more
\* is known of the program.
ThreadFrame ==
    /\ ~corrupted
    /\ UNCHANGED <<last, requested, ncalls, failed, aligned_malloc>>

\* Thread t enters Get(name, labels); warm tells whether families_ and
\* metrics_ hold the keys of the call at that moment.
ThreadCall(t, name, labels) ==
    /\ ThreadFrame
    /\ thread[t].pc \in {"idle", "done"}
    /\ CallsOf(Threads) < MaxThreadCalls
    /\ thread' = [thread EXCEPT ![t] =
            [Idle EXCEPT !.pc = "find_family", !.name = name,
                         !.labels = labels,
                         !.warm = /\ StdHash(name) \in DOMAIN families_
                                  /\ StdHash(Accumulate(name, labels))
                                        \in DOMAIN metrics_,
                         !.calls = thread[t].calls + 1]]
    /\ UNCHANGED <<families_, metrics_, registry_, corrupted>>

\* families_.find(name_hash) and the branch on it
FindFamily(t) ==
    /\ ThreadFrame
    /\ thread[t].pc = "find_family"
    /\ IF FamilyCached(thread[t].name)
       THEN thread' = [thread EXCEPT
                ![t].family = families_[NameHash(thread[t].name)],
                ![t].family_hit = TRUE,
                ![t].pc = "find_metric"]
       ELSE thread' = [thread EXCEPT ![t].pc = "register"]
    /\ UNCHANGED <<families_, metrics_, registry_, corrupted>>

\* family = &factory_().Name(proto_name).Register(*registry_)
RegisterFamily(t) ==
    /\ ThreadFrame
    /\ thread[t].pc = "register"
    /\ registry_' = Register(registry_, ProtoName(thread[t].name))
    /\ thread' = [thread EXCEPT ![t].family = Len(registry_) + 1,
                                ![t].pc = "insert_family"]
    /\ UNCHANGED <<families_, metrics_, corrupted>>

\* families_.insert({{name_hash, family}}).  While another thread is inside
\* Get the unsynchronized write is a data race: either it takes effect as
\* one step, or the behaviour is undefined.
InsertFamily(t) ==
    /\ ThreadFrame
    /\ thread[t].pc = "insert_family"
    /\ \/ /\ families_' = CacheInsert(families_, NameHash(thread[t].name),
                                       thread[t].family)
          /\ thread' = [thread EXCEPT ![t].pc = "find_metric"]
          /\ UNCHANGED corrupted
       \/ /\ \E u \in Threads \ {t} : InFlight(u)
          /\ corrupted' = TRUE
          /\ UNCHANGED <<families_, thread>>
    /\ UNCHANGED <<metrics_, registry_>>

\* metrics_.find(metric_hash) and the branch on it
FindMetric(t) ==
    /\ ThreadFrame
    /\ thread[t].pc = "find_metric"
    /\ IF MetricCached(thread[t].name, thread[t].labels)
       THEN thread' = [thread EXCEPT
                ![t].metric = metrics_[hash_name_and_labels(thread[t].name,
                                                            thread[t].labels)],
                ![t].metric_hit = TRUE,
                ![t].pc = "return"]
       ELSE thread' = [thread EXCEPT ![t].pc = "add"]
    /\ UNCHANGED <<families_, metrics_, registry_, corrupted>>

\* parse_labels(labels, converted_labels);
\* metric = &family->Add(converted_labels, args...)
AddMetric(t) ==
    /\ ThreadFrame
    /\ thread[t].pc = "add"
    /\ registry_' = Add(registry_, thread[t].family,
                        parse_labels(thread[t].labels), NoArgs)
    /\ thread' = [thread EXCEPT
            ![t].metric =
                [family |-> thread[t].family,
                 index  |-> Len(registry_[thread[t].family].metrics) + 1],
            ![t].pc = "insert_metric"]
    /\ UNCHANGED <<families_, metrics_, corrupted>>

\* metrics_.insert({{metric_hash, metric}}), a data race like the insert
\* into families_.
InsertMetric(t) ==
    /\ ThreadFrame
    /\ thread[t].pc = "insert_metric"
    /\ \/ /\ metrics_' = CacheInsert(metrics_,
                                      hash_name_and_labels(thread[t].name,
                                                           thread[t].labels),
                                      thread[t].metric)
          /\ thread' = [thread EXCEPT ![t].pc = "return"]
          /\ UNCHANGED corrupted
       \/ /\ \E u \in Threads \ {t} : InFlight(u)
          /\ corrupted' = TRUE
          /\ UNCHANGED <<metrics_, thread>>
    /\ UNCHANGED <<families_, registry_>>

\* return *metric
Return(t) ==
    /\ ThreadFrame
    /\ thread[t].pc = "return"
    /\ thread' = [thread EXCEPT
            ![t].result = Returned(metrics_,
                                   hash_name_and_labels(thread[t].name,
                                                        thread[t].labels),
                                   thread[t].metric),
            ![t].pc = "done"]
    /\ UNCHANGED <<families_, metrics_, registry_, corrupted>>

\* Any thread takes its next step.
NextThreads ==
    \E t \in Threads :
        \/ \E name \in Names, labels \in ThreadLabels :
                ThreadCall(t, name, labels)
        \/ FindFamily(t)
        \/ RegisterFamily(t)
        \/ InsertFamily(t)
        \/ FindMetric(t)
        \/ AddMetric(t)
        \/ InsertMetric(t)
        \/ Return(t)

SpecThreads == Init /\ [][NextThreads]_vars

---------------------------------------------------------------------------
(* lfds611_liblfds_aligned_malloc                                          *)
(*                                                                         *)
(* size_t and pointers are WordBits wide, and a pointer takes PtrSize      *)
(* bytes: the 64-bit machine scaled down.                                  *)

WordBits == 5
PtrSize  == 2

Word == 0 .. (2 ^ WordBits - 1)
NULL == 0

\* The addresses lfds611_abstraction_malloc(length) can return: NULL, or
\* the start of a block of length bytes, aligned for a pointer, that lies in
\* the address space together with the address one past its end.
MallocReturns(length) ==
    {NULL} \cup { a \in Word : /\ a # NULL
                              /\ a % PtrSize = 0
                              /\ a + length < 2 ^ WordBits }

\* The values (size_t) memory % align_in_bytes can give: the remainder, or,
\* when align_in_bytes is 0, whatever the undefined division leaves in the
\* register.
Remainders(memory, align_in_bytes) ==
    IF align_in_bytes = 0 THEN Word ELSE { memory % align_in_bytes }

\* The function touches nothing of the metrics registry.
MallocFrame ==
    UNCHANGED <<families_, metrics_, registry_, last, requested, ncalls,
                failed, thread, corrupted>>

\* lfds611_liblfds_aligned_malloc(size, align_in_bytes) is called; length
\* is the argument it computes for lfds611_abstraction_malloc, in size_t.
AlignedMallocCall(size, align_in_bytes) ==
    /\ aligned_malloc.pc = "idle"
    /\ aligned_malloc' =
            [aligned_malloc EXCEPT
                !.pc = "malloc", !.size = size,
                !.align_in_bytes = align_in_bytes,
                !.length = (size + PtrSize + align_in_bytes) % (2 ^ WordBits)]
    /\ MallocFrame

\* original_memory = memory = lfds611_abstraction_malloc(...)
AbstractionMalloc(address) ==
    /\ aligned_malloc.pc = "malloc"
    /\ address \in MallocReturns(aligned_malloc.length)
    /\ aligned_malloc' =
            [aligned_malloc EXCEPT
                !.original_memory = address, !.memory = address,
                !.pc = IF address # NULL THEN "align" ELSE "return"]
    /\ MallocFrame

\* The body of if (memory != NULL), where the division found remainder.
Align(remainder) ==
    LET memory1 == (aligned_malloc.memory + PtrSize) % (2 ^ WordBits)
        offset  == (aligned_malloc.align_in_bytes - remainder)
                        % (2 ^ WordBits)
        memory2 == (memory1 + offset) % (2 ^ WordBits)
    IN  /\ aligned_malloc.pc = "align"
        /\ remainder \in Remainders(memory1, aligned_malloc.align_in_bytes)
        /\ aligned_malloc' =
                [aligned_malloc EXCEPT
                    !.offset = offset, !.memory = memory2,
                    !.slot = (memory2 - PtrSize) % (2 ^ WordBits),
                    !.slot_value = aligned_malloc.original_memory,
                    !.pc = "return"]
        /\ MallocFrame

\* The division by an align_in_bytes of 0 traps, and the call never returns.
DivideTrap ==
    /\ aligned_malloc.pc = "align"
    /\ aligned_malloc.align_in_bytes = 0
    /\ aligned_malloc' = [aligned_malloc EXCEPT !.pc = "trapped"]
    /\ MallocFrame

\* return (memory)
AlignedMallocReturn ==
    /\ aligned_malloc.pc = "return"
    /\ aligned_malloc' = [aligned_malloc EXCEPT !.pc = "returned"]
    /\ MallocFrame

NextMalloc ==
    \/ \E size \in Word, align_in_bytes \in Word :
            AlignedMallocCall(size, align_in_bytes)
    \/ \E address \in Word : AbstractionMalloc(address)
    \/ \E remainder \in Word : Align(remainder)
    \/ DivideTrap
    \/ AlignedMallocReturn

SpecMalloc == Init /\ [][NextMalloc]_vars

---------------------------------------------------------------------------
(* Properties                                                              *)

Keys == DOMAIN requested

\* The (name, label set) pair of a request, whatever the insertion order.
PairOf(key) == <<key[1], PairsOf(key[2])>>

RangeOf(f) == { f[x] : x \in DOMAIN f }

\* The metrics the backend holds, as the T* that Family::Add returned.
BackendMetrics ==
    UNION { { [family |-> f, index |-> i] :
                i \in 1..Len(registry_[f].metrics) } :
            f \in 1..Len(registry_) }

\* The record the backend holds of the metric behind a T*.
MetricAt(reg, metric) == reg[metric.family].metrics[metric.index]

RECURSIVE TotalAdds(_)
TotalAdds(reg) ==
    IF reg = << >> THEN 0 ELSE Len(Head(reg).metrics) + TotalAdds(Tail(reg))

\* C1: two Get calls with the same name and the same label key/value pairs
\* return the identical instance, whatever the insertion order of the labels
\* and whatever calls were made in between.
C1_SameInstance ==
    \A k1, k2 \in Keys :
        PairOf(k1) = PairOf(k2) =>
            Cardinality(requested[k1].instances \cup requested[k2].instances) = 1

\* Get("a", {2: "", b: "b"}), then a Get of another name, then
\* Get("a", {b: "b", 2: ""}) with the labels inserted in the other order.
C1_Witness ==
    /\ ncalls = 3
    /\ last.op = "Get"
    /\ last.name = Str_a
    /\ last.ins = << <<Str_b, Str_b>>, <<Str_2, Str_empty>> >>
    /\ last.metric_hit
    /\ <<Str_a, << <<Str_2, Str_empty>>, <<Str_b, Str_b>> >> >> \in Keys
    /\ FamilyCached(Str_a) /\ families_[StdHash(Str_a)] = 1
    /\ Len(registry_) = 2

\* C2: under one name, two label maps that differ in a key or in a value get
\* two distinct instances.
C2_DistinctInstances ==
    \A k1, k2 \in Keys :
        (k1[1] = k2[1] /\ PairsOf(k1[2]) # PairsOf(k2[2])) =>
            requested[k1].instances \cap requested[k2].instances = {}

\* C3: while the backend never fails, a Get calls Family::Add exactly when
\* its (name, labels) pair was not requested before: once per distinct pair.
C3_AddOncePerPair ==
    [][ (ncalls' = ncalls + 1 /\ ~failed') =>
            ( (TotalAdds(registry_') = TotalAdds(registry_) + 1)
              <=> (\A k \in Keys : PairOf(k) # <<last'.name, PairsOf(last'.ins)>>) )
      ]_vars

\* C4: after successful Get calls, SizeFamilies() is the number of distinct
\* names passed and SizeMetrics() the number of distinct (name, labels) pairs
\* passed.
C4_SizesCountDistinct ==
    ~failed =>
        /\ SizeFamilies = Cardinality({ k[1] : k \in Keys })
        /\ SizeMetrics = Cardinality({ PairOf(k) : k \in Keys })

\* C5: a Get for a pair that Get has returned an instance for before returns
\* that instance, which was built with the construction arguments of the
\* first Get for the pair, and changes neither cache nor the backend.
C5_HitIgnoresArgs ==
    [][ \A k \in Keys :
            (ncalls' = ncalls + 1 /\ PairOf(k) = <<last'.name, PairsOf(last'.ins)>>) =>
                /\ last'.result \in requested[k].instances
                /\ MetricAt(registry_', last'.result).args = requested[k].first_args
                /\ UNCHANGED <<families_, metrics_, registry_>>
      ]_vars

\* C6: the backend registry never receives two Family registrations that
\* carry the same normalized name.
C6_FamilyOncePerName ==
    \A i, j \in 1..Len(registry_) :
        i # j => registry_[i].name # registry_[j].name

\* C7: Family::Add of one Family is never invoked twice with the same
\* normalized label mapping.
C7_InstanceOncePerLabels ==
    \A f \in 1..Len(registry_) :
        \A i, j \in 1..Len(registry_[f].metrics) :
            i # j => registry_[f].metrics[i].labels # registry_[f].metrics[j].labels

\* C8: the Family that Get created for a raw name is registered under the
\* decimal text of the enum number when the resolver recognizes the name, and
\* under the raw name when it does not.
C8_RegisteredName ==
    \A name \in Names :
        FamilyCached(name) =>
            registry_[families_[StdHash(name)]].name =
                IF MetricName_Parse(name) THEN to_string(MetricNameEnum[name])
                ELSE name

\* Families were created for the enum name "a", registered as "1", and for
\* the unrecognized name "ab", registered as "ab".
C8_Witness ==
    /\ FamilyCached(Str_a) /\ FamilyCached(Str_ab)
    /\ registry_[families_[StdHash(Str_a)]].name = Str_1
    /\ registry_[families_[StdHash(Str_ab)]].name = Str_ab

\* C9: the label mapping Get hands to Family::Add holds, for every pair
\* (labelName, labelValue) of the caller's map, the pair
\* (normalized labelName, labelValue).
C9_EveryLabelPassed ==
    (last.op = "Get" /\ last.thrown = "none" /\ ~last.metric_hit) =>
        \A p \in PairsOf(last.labels) :
            << IF MetricLabelName_Parse(p[1])
               THEN to_string(MetricLabelNameEnum[p[1]]) ELSE p[1],
               p[2] >> \in PairsOf(MetricAt(registry_, last.result).labels)

C13_EntriesPersist ==
    [][ /\ \A k \in DOMAIN families_ :
                k \in DOMAIN families_' /\ families_'[k] = families_[k]
        /\ \A k \in DOMAIN metrics_ :
                k \in DOMAIN metrics_' /\ metrics_'[k] = metrics_[k]
        /\ SizeFamilies' >= SizeFamilies
        /\ SizeMetrics' >= SizeMetrics
      ]_vars

\* Two families and two metrics were cached by the first two calls, and the
\* third call found both its family and its metric still cached.
C13_Witness ==
    /\ ncalls = 3
    /\ SizeFamilies = 2 /\ SizeMetrics = 2
    /\ last.op = "Get" /\ last.family_hit /\ last.metric_hit
    /\ last.retry_of = "none"

\* C14: two Get calls whose names have different normalized forms return
\* instances of two different Families, each registered under the
\* normalized form of the name of its call.
C14_DifferentFamilies ==
    \A k1, k2 \in Keys :
        ProtoName(k1[1]) # ProtoName(k2[1]) =>
            \A m1 \in requested[k1].instances, m2 \in requested[k2].instances :
                /\ m1.family # m2.family
                /\ registry_[m1.family].name = ProtoName(k1[1])
                /\ registry_[m2.family].name = ProtoName(k2[1])

C16_InstanceOfOwnFamily ==
    (last.op = "Get" /\ last.thrown = "none") =>
        /\ FamilyCached(last.name)
        /\ last.result.family = families_[StdHash(last.name)]

\* C17: the mapping parse_labels builds, which Get hands to Family::Add, has
\* as many entries as the caller's label map.
C17_NoLabelLost ==
    (last.op = "Get" /\ last.thrown = "none" /\ ~last.metric_hit) =>
        Len(MetricAt(registry_, last.result).labels) = Len(last.labels)

\* C11: when two threads have run Get for the same (name, labels) pair and
\* neither found the pair in metrics_, which happens when their steps
\* interleave, the two calls return different instances, and the backend
\* has received two registrations of the name or two Add calls with the same
\* labels on one Family.
C11_RaceDuplicates ==
    \A t1, t2 \in Threads :
        ( /\ t1 # t2
          /\ ~corrupted
          /\ thread[t1].pc = "done" /\ thread[t2].pc = "done"
          /\ thread[t1].name = thread[t2].name
          /\ thread[t1].labels = thread[t2].labels
          /\ ~thread[t1].metric_hit /\ ~thread[t2].metric_hit ) =>
            /\ thread[t1].result # thread[t2].result
            /\ \/ /\ thread[t1].family # thread[t2].family
                  /\ registry_[thread[t1].family].name =
                        registry_[thread[t2].family].name
               \/ /\ thread[t1].family = thread[t2].family
                  /\ MetricAt(registry_, thread[t1].result).labels =
                        MetricAt(registry_, thread[t2].result).labels

\* Both threads called Get("a", {}) on the empty registry, both missed both
\* caches: the backend holds two Families named "1", each with one metric
\* without labels, and the calls returned the two different metrics.
C11_Witness ==
    /\ ~corrupted
    /\ \A t \in Threads :
            /\ thread[t].pc = "done" /\ thread[t].calls = 1
            /\ thread[t].name = Str_a /\ thread[t].labels = <<>>
            /\ ~thread[t].family_hit /\ ~thread[t].metric_hit
    /\ Len(registry_) = 2
    /\ registry_[1].name = Str_1 /\ registry_[2].name = Str_1
    /\ Len(registry_[1].metrics) = 1 /\ Len(registry_[2].metrics) = 1
    /\ thread[1].result # thread[2].result
    /\ SizeFamilies = 1 /\ SizeMetrics = 1

\* C12: while every thread inside Get entered it when families_ and metrics_
\* held the keys of its call, no step writes to families_ or metrics_ or
\* calls the backend, no data race occurs, and a call that returns returns
\* the instance metrics_ holds for its pair.
C12_ReadOnlySafe ==
    [][ (~corrupted /\ \A t \in Threads : InFlight(t) => thread[t].warm) =>
            /\ UNCHANGED <<families_, metrics_, registry_, corrupted>>
            /\ \A t \in Threads :
                    (InFlight(t) /\ thread'[t].pc = "done") =>
                        thread'[t].result =
                            metrics_[StdHash(Accumulate(thread[t].name,
                                                        thread[t].labels))]
      ]_vars

\* Thread 1 created ("a", {}) alone; then both threads ran Get("a", {})
\* concurrently, each finding family and metric cached, and both returned
\* the one instance.
C12_Witness ==
    /\ ~corrupted
    /\ thread[1].calls = 2 /\ thread[2].calls = 1
    /\ \A t \in Threads :
            /\ thread[t].pc = "done" /\ thread[t].warm
            /\ thread[t].name = Str_a /\ thread[t].labels = <<>>
            /\ thread[t].family_hit /\ thread[t].metric_hit
            /\ thread[t].result = [family |-> 1, index |-> 1]
    /\ Len(registry_) = 1 /\ TotalAdds(registry_) = 1

\* C18: for every size and align_in_bytes and every address the allocator
\* returns, the call returns (never traps); it returns NULL when the
\* allocator returned NULL, and otherwise an address that is a multiple of
\* align_in_bytes, with the allocator's address stored in the pointer-sized
\* slot just before it, the slot and the size bytes after it lying inside
\* the allocated block, whose length size + sizeof(void*) + align_in_bytes
\* was computed without wrapping.
C18_AlignedInsideBlock ==
    LET am == aligned_malloc
    IN  /\ am.pc # "trapped"
        /\ am.pc = "returned" =>
              IF am.original_memory = NULL
              THEN am.memory = NULL
              ELSE /\ am.align_in_bytes # 0
                   /\ am.memory % am.align_in_bytes = 0
                   /\ am.slot = am.memory - PtrSize
                   /\ am.slot_value = am.original_memory
                   /\ am.slot >= am.original_memory
                   /\ am.length = am.size + PtrSize + am.align_in_bytes
                   /\ am.memory + am.size <= am.original_memory + am.length

===========================================================================
